---- MODULE Spec2Model ----
(***************************************************************************)
(* AllowlistGuard (src/main.rs): a Bloom filter behind a tokio RwLock in   *)
(* front of a Postgres table.  The model follows the async functions       *)
(* new, migrate_dummy_data, hydrate, check_access and add_user statement   *)
(* by statement; every .await is a step boundary, every store round trip   *)
(* may succeed or fail.                                                    *)
(***************************************************************************)
EXTENDS Integers, FiniteSets, Sequences, TLC

\* ---- bounds of the model ----
NumKeys == 3        \* distinct wallet addresses
NumBits == 4        \* bits of the Bloom filter's bit array
NumCallers == 1     \* tasks calling the guard besides the main task
SeedCount == 2      \* the count handed to migrate_dummy_data
MaxRows == 2        \* add_user stops adding rows for a wallet at this many
MaxCalls == 3       \* calls made on the guard once new has returned it

Keys == 1..NumKeys
Bits == 0..(NumBits - 1)
Procs == 0..NumCallers
Main == 0
NoKey == 0
NoOne == 0 - 1

VARIABLES
    rows,       \* table bloom_allowlist: wallet -> number of rows holding it
    filter,     \* AllowlistGuard.filter: the set of bits that are 1
    writer,     \* holder of the RwLock's write guard, or NoOne
    readers,    \* holders of read guards
    guard,      \* outcome of AllowlistGuard::new
    pc,         \* position of each task
    call,       \* locals of each task's current call, and its observations
    lastAdd,    \* wallet of the add_user a task has just completed with Ok
    acked,      \* wallets for which some add_user has returned Ok
    seeded,     \* wallets in the table when new's hydrate starts
    nCalls,     \* calls made on the guard so far
    inserted    \* wallets handed to Bloom::set on the guard's filter

vars == <<rows, filter, writer, readers, guard, pc, call, lastAdd, acked, seeded, nCalls, inserted>>

\* ---- bloomfilter::Bloom<String> ----
\* the bit positions the filter's hash functions give a wallet
Hashes(k) == {k % NumBits, (k + 1) % NumBits}

BloomSet_Noop(f, k) == f

BloomSet_Toggle(f, k) == (f \ Hashes(k)) \cup (Hashes(k) \ f)

\* Bloom::set
BloomSet(f, k) == f \cup Hashes(k)

\* Bloom::check
BloomCheck(f, k) == Hashes(k) \subseteq f

\* Bloom::new_for_fp_rate: no bit set
EmptyBloom == {}

\* ---- the table ----
Total(r) == LET S[n \in 0..NumKeys] == IF n = 0 THEN 0 ELSE S[n - 1] + r[n] IN S[NumKeys]
Present(r) == {k \in Keys : r[k] > 0}
\* the values migrate_dummy_data can generate: SeedCount random wallets
Batches == {b \in [Keys -> 0..SeedCount] : Total(b) = SeedCount}

UnwrapOrTrue(r) == r # "false"

\* Result<bool>::unwrap_or(false)
UnwrapOrFalse(r) == r = "true"

FreshCall ==
    [key |-> NoKey, probably |-> FALSE, results |-> {}, todo |-> {}, ret |-> "none",
     storeCalls |-> 0, lookups |-> 0, qres |-> "none", storeErr |-> FALSE,
     storeDone |-> FALSE, filterDone |-> FALSE, ackAtStart |-> FALSE, ownAdd |-> FALSE, sawAtomic |-> TRUE,
     before |-> {}, dup |-> FALSE]

TypeOK ==
    /\ rows \in [Keys -> Nat]
    /\ filter \subseteq Bits
    /\ writer \in Procs \cup {NoOne}
    /\ readers \subseteq Procs
    /\ guard \in {"building", "ready", "failed"}
    /\ pc \in [Procs -> STRING]
    /\ lastAdd \in [Procs -> Keys \cup {NoKey}]
    /\ acked \subseteq Keys
    /\ seeded \subseteq Keys
    /\ nCalls \in 0..MaxCalls
    /\ inserted \subseteq Keys

Init ==
    /\ rows \in [Keys -> 0..1]
    /\ filter = EmptyBloom
    /\ writer = NoOne
    /\ readers = {}
    /\ guard = "building"
    /\ pc = [p \in Procs |-> IF p = Main THEN "new" ELSE "idle"]
    /\ call = [p \in Procs |-> FreshCall]
    /\ lastAdd = [p \in Procs |-> NoKey]
    /\ acked = {}
    /\ seeded = {}
    /\ nCalls = 0
    /\ inserted = {}

\* ---- AllowlistGuard::new ----
NewBuildPool(p) ==
    /\ pc[p] = "new"
    /\ \/ /\ pc' = [pc EXCEPT ![p] = "m_conn"]
          /\ guard' = guard
       \/ /\ pc' = [pc EXCEPT ![p] = "exited"]
          /\ guard' = "failed"
    /\ UNCHANGED <<rows, filter, writer, readers, call, lastAdd, acked, seeded, nCalls, inserted>>

\* ---- migrate_dummy_data ----
MigrateGetConn(p) ==
    /\ pc[p] = "m_conn"
    /\ \/ /\ pc' = [pc EXCEPT ![p] = "m_count"]
          /\ call' = call
       \/ /\ pc' = [pc EXCEPT ![p] = "m_ret"]
          /\ call' = [call EXCEPT ![p].ret = "err", ![p].storeErr = TRUE]
    /\ UNCHANGED <<rows, filter, writer, readers, guard, lastAdd, acked, seeded, nCalls, inserted>>

MigrateCount(p) ==
    /\ pc[p] = "m_count"
    /\ \/ /\ Total(rows) >= SeedCount
          /\ pc' = [pc EXCEPT ![p] = "m_ret"]
          /\ call' = [call EXCEPT ![p].ret = "ok"]
       \/ /\ Total(rows) < SeedCount
          /\ pc' = [pc EXCEPT ![p] = "m_insert"]
          /\ call' = call
       \/ /\ pc' = [pc EXCEPT ![p] = "m_ret"]
          /\ call' = [call EXCEPT ![p].ret = "err", ![p].storeErr = TRUE]
    /\ UNCHANGED <<rows, filter, writer, readers, guard, lastAdd, acked, seeded, nCalls, inserted>>

MigrateInsert(p) ==
    /\ pc[p] = "m_insert"
    /\ \/ \E b \in Batches :
             /\ rows' = [k \in Keys |-> rows[k] + b[k]]
             /\ call' = [call EXCEPT ![p].ret = "ok"]
       \/ /\ rows' = rows
          /\ call' = [call EXCEPT ![p].ret = "err", ![p].storeErr = TRUE]
    /\ pc' = [pc EXCEPT ![p] = "m_ret"]
    /\ UNCHANGED <<filter, writer, readers, guard, lastAdd, acked, seeded, nCalls, inserted>>

\* guard.migrate_dummy_data(500).await?
MigrateReturn(p) ==
    /\ pc[p] = "m_ret"
    /\ \/ /\ call[p].ret = "ok"
          /\ pc' = [pc EXCEPT ![p] = "h_conn"]
          /\ seeded' = Present(rows)
          /\ guard' = guard
       \/ /\ call[p].ret = "err"
          /\ pc' = [pc EXCEPT ![p] = "exited"]
          /\ seeded' = seeded
          /\ guard' = "failed"
    /\ call' = [call EXCEPT ![p] = FreshCall]
    /\ UNCHANGED <<rows, filter, writer, readers, lastAdd, acked, nCalls, inserted>>

\* ---- hydrate ----
HydrateGetConn(p) ==
    /\ pc[p] = "h_conn"
    /\ \/ /\ pc' = [pc EXCEPT ![p] = "h_load"]
          /\ call' = [call EXCEPT ![p].storeCalls = @ + 1]
       \/ /\ pc' = [pc EXCEPT ![p] = "h_ret"]
          /\ call' = [call EXCEPT ![p].ret = "err", ![p].storeErr = TRUE,
                                  ![p].storeCalls = @ + 1]
    /\ UNCHANGED <<rows, filter, writer, readers, guard, lastAdd, acked, seeded, nCalls, inserted>>

HydrateLoad_IgnoreErr(p) ==
    /\ pc[p] = "h_load"
    /\ \/ call' = [call EXCEPT ![p].results = Present(rows), ![p].storeCalls = @ + 1]
       \/ call' = [call EXCEPT ![p].storeErr = TRUE, ![p].storeCalls = @ + 1]
    /\ pc' = [pc EXCEPT ![p] = "h_lock"]
    /\ UNCHANGED <<rows, filter, writer, readers, guard, lastAdd, acked, seeded, nCalls, inserted>>

HydrateLoad_SkipFirst(p) ==
    /\ pc[p] = "h_load"
    /\ \/ /\ pc' = [pc EXCEPT ![p] = "h_lock"]
          /\ call' = [call EXCEPT ![p].results = {k \in Present(rows) : k > 1},
                                  ![p].storeCalls = @ + 1]
       \/ /\ pc' = [pc EXCEPT ![p] = "h_ret"]
          /\ call' = [call EXCEPT ![p].ret = "err", ![p].storeErr = TRUE,
                                  ![p].storeCalls = @ + 1]
    /\ UNCHANGED <<rows, filter, writer, readers, guard, lastAdd, acked, seeded, nCalls, inserted>>

HydrateLoad(p) ==
    /\ pc[p] = "h_load"
    /\ \/ /\ pc' = [pc EXCEPT ![p] = "h_lock"]
          /\ call' = [call EXCEPT ![p].results = Present(rows),
                                  ![p].storeCalls = @ + 1]
       \/ /\ pc' = [pc EXCEPT ![p] = "h_ret"]
          /\ call' = [call EXCEPT ![p].ret = "err", ![p].storeErr = TRUE,
                                  ![p].storeCalls = @ + 1]
    /\ UNCHANGED <<rows, filter, writer, readers, guard, lastAdd, acked, seeded, nCalls, inserted>>

HydrateLock_Fresh(p) ==
    /\ pc[p] = "h_lock"
    /\ writer = NoOne
    /\ readers = {}
    /\ writer' = p
    /\ filter' = EmptyBloom
    /\ inserted' = {}
    /\ pc' = [pc EXCEPT ![p] = "h_loop"]
    /\ call' = [call EXCEPT ![p].todo = call[p].results, ![p].before = inserted]
    /\ UNCHANGED <<rows, readers, guard, lastAdd, acked, seeded, nCalls>>

\* let mut filter = self.filter.write().await
HydrateLock(p) ==
    /\ pc[p] = "h_lock"
    /\ writer = NoOne
    /\ readers = {}
    /\ writer' = p
    /\ pc' = [pc EXCEPT ![p] = "h_loop"]
    /\ call' = [call EXCEPT ![p].todo = call[p].results, ![p].before = inserted]
    /\ UNCHANGED <<rows, filter, readers, guard, lastAdd, acked, seeded, nCalls, inserted>>

\* one iteration of: for entry in &results { filter.set(&entry.wallet_address) }
HydrateSet(p) ==
    /\ pc[p] = "h_loop"
    /\ \E k \in call[p].todo :
          /\ filter' = BloomSet(filter, k)
          /\ inserted' = inserted \cup {k}
          /\ call' = [call EXCEPT ![p].todo = @ \ {k}, ![p].filterDone = TRUE,
                                  ![p].dup = @ \/ (k \in inserted)]
    /\ UNCHANGED <<rows, writer, readers, guard, pc, lastAdd, acked, seeded, nCalls>>

\* end of the loop: Ok(()) and the write guard is dropped
HydrateUnlock(p) ==
    /\ pc[p] = "h_loop"
    /\ call[p].todo = {}
    /\ writer' = NoOne
    /\ pc' = [pc EXCEPT ![p] = "h_ret"]
    /\ call' = [call EXCEPT ![p].ret = "ok"]
    /\ UNCHANGED <<rows, filter, readers, guard, lastAdd, acked, seeded, nCalls, inserted>>

NewReturn_IgnoreErr(p) ==
    /\ pc[p] = "h_ret"
    /\ guard = "building"
    /\ guard' = "ready"
    /\ pc' = [pc EXCEPT ![p] = "idle"]
    /\ call' = [call EXCEPT ![p] = FreshCall]
    /\ UNCHANGED <<rows, filter, writer, readers, lastAdd, acked, seeded, nCalls, inserted>>

\* guard.hydrate().await? ; Ok(guard)
NewReturn(p) ==
    /\ pc[p] = "h_ret"
    /\ guard = "building"
    /\ \/ /\ call[p].ret = "ok"
          /\ guard' = "ready"
          /\ pc' = [pc EXCEPT ![p] = "idle"]
       \/ /\ call[p].ret = "err"
          /\ guard' = "failed"
          /\ pc' = [pc EXCEPT ![p] = "exited"]
    /\ call' = [call EXCEPT ![p] = FreshCall]
    /\ UNCHANGED <<rows, filter, writer, readers, lastAdd, acked, seeded, nCalls, inserted>>

\* ---- a task calls one of the guard's functions ----
StartCheck(p) ==
    /\ guard = "ready"
    /\ pc[p] = "idle"
    /\ nCalls < MaxCalls
    /\ nCalls' = nCalls + 1
    /\ \E k \in Keys :
          call' = [call EXCEPT ![p] = [FreshCall EXCEPT !.key = k,
                                                        !.ackAtStart = (k \in acked),
                                                        !.ownAdd = (lastAdd[p] = k)]]
    /\ pc' = [pc EXCEPT ![p] = "c_lock"]
    /\ lastAdd' = [lastAdd EXCEPT ![p] = NoKey]
    /\ UNCHANGED <<rows, filter, writer, readers, guard, acked, seeded, inserted>>

StartAdd(p) ==
    /\ guard = "ready"
    /\ pc[p] = "idle"
    /\ nCalls < MaxCalls
    /\ nCalls' = nCalls + 1
    /\ \E k \in Keys : call' = [call EXCEPT ![p] = [FreshCall EXCEPT !.key = k]]
    /\ pc' = [pc EXCEPT ![p] = "a_conn"]
    /\ lastAdd' = [lastAdd EXCEPT ![p] = NoKey]
    /\ UNCHANGED <<rows, filter, writer, readers, guard, acked, seeded, inserted>>

StartHydrate(p) ==
    /\ guard = "ready"
    /\ pc[p] = "idle"
    /\ nCalls < MaxCalls
    /\ nCalls' = nCalls + 1
    /\ call' = [call EXCEPT ![p] = FreshCall]
    /\ pc' = [pc EXCEPT ![p] = "h_conn"]
    /\ lastAdd' = [lastAdd EXCEPT ![p] = NoKey]
    /\ UNCHANGED <<rows, filter, writer, readers, guard, acked, seeded, inserted>>

\* the caller takes the returned value and is free to call again
Finish(p) ==
    /\ guard = "ready"
    /\ pc[p] \in {"c_ret", "a_ret", "h_ret"}
    /\ pc' = [pc EXCEPT ![p] = "idle"]
    /\ lastAdd' = [lastAdd EXCEPT ![p] =
                     IF pc[p] = "a_ret" /\ call[p].ret = "ok" THEN call[p].key ELSE NoKey]
    /\ call' = [call EXCEPT ![p] = FreshCall]
    /\ UNCHANGED <<rows, filter, writer, readers, guard, acked, seeded, nCalls, inserted>>

\* ---- check_access ----
\* no writer holds the lock, or the writer is not between two of hydrate's insertions
AtomicView(p) ==
    \/ writer = NoOne
    \/ pc[writer] # "h_loop"
    \/ call[writer].todo = {}
    \/ call[writer].todo = call[writer].results

CheckLock_NoWait(p) ==
    /\ pc[p] = "c_lock"
    /\ readers' = readers \cup {p}
    /\ pc' = [pc EXCEPT ![p] = "c_test"]
    /\ UNCHANGED <<rows, filter, writer, guard, call, lastAdd, acked, seeded, nCalls, inserted>>

\* self.filter.read().await
CheckLock(p) ==
    /\ pc[p] = "c_lock"
    /\ writer = NoOne
    /\ readers' = readers \cup {p}
    /\ pc' = [pc EXCEPT ![p] = "c_test"]
    /\ UNCHANGED <<rows, filter, writer, guard, call, lastAdd, acked, seeded, nCalls, inserted>>

CheckTest_KeepLock(p) ==
    /\ pc[p] = "c_test"
    /\ LET hit == BloomCheck(filter, call[p].key) IN
          /\ call' = [call EXCEPT ![p].probably = hit,
                                  ![p].sawAtomic = AtomicView(p),
                                  ![p].ret = IF hit THEN "none" ELSE "false"]
          /\ pc' = [pc EXCEPT ![p] = IF hit THEN "c_conn" ELSE "c_ret"]
    /\ UNCHANGED <<rows, filter, writer, readers, guard, lastAdd, acked, seeded, nCalls, inserted>>

CheckTest_NoShortCircuit(p) ==
    /\ pc[p] = "c_test"
    /\ readers' = readers \ {p}
    /\ call' = [call EXCEPT ![p].probably = BloomCheck(filter, call[p].key),
                            ![p].sawAtomic = AtomicView(p)]
    /\ pc' = [pc EXCEPT ![p] = "c_conn"]
    /\ UNCHANGED <<rows, filter, writer, guard, lastAdd, acked, seeded, nCalls, inserted>>

\* .check(&wallet_to_check.to_string()); if !probably_exists { return false; }
CheckTest(p) ==
    /\ pc[p] = "c_test"
    /\ readers' = readers \ {p}
    /\ LET hit == BloomCheck(filter, call[p].key) IN
          /\ call' = [call EXCEPT ![p].probably = hit,
                                  ![p].sawAtomic = AtomicView(p),
                                  ![p].ret = IF hit THEN "none" ELSE "false"]
          /\ pc' = [pc EXCEPT ![p] = IF hit THEN "c_conn" ELSE "c_ret"]
    /\ UNCHANGED <<rows, filter, writer, guard, lastAdd, acked, seeded, nCalls, inserted>>

\* self.pool.get().await.expect("Failed to get DB connection")
CheckGetConn(p) ==
    /\ pc[p] = "c_conn"
    /\ \/ /\ pc' = [pc EXCEPT ![p] = "c_query"]
          /\ call' = [call EXCEPT ![p].storeCalls = @ + 1]
       \/ /\ pc' = [pc EXCEPT ![p] = "panicked"]
          /\ call' = [call EXCEPT ![p].storeCalls = @ + 1, ![p].storeErr = TRUE]
    /\ UNCHANGED <<rows, filter, writer, readers, guard, lastAdd, acked, seeded, nCalls, inserted>>

CheckQuery_Upsert(p) ==
    /\ pc[p] = "c_query"
    /\ \E r \in {IF rows[call[p].key] > 0 THEN "true" ELSE "false", "err"} :
          call' = [call EXCEPT ![p].qres = r,
                               ![p].storeErr = (r = "err"),
                               ![p].lookups = @ + 1,
                               ![p].storeCalls = @ + 1,
                               ![p].ret = IF UnwrapOrFalse(r) THEN "true" ELSE "false"]
    /\ rows' = [rows EXCEPT ![call[p].key] = IF @ = 0 THEN 1 ELSE @]
    /\ pc' = [pc EXCEPT ![p] = "c_ret"]
    /\ UNCHANGED <<filter, writer, readers, guard, lastAdd, acked, seeded, nCalls, inserted>>

\* select(exists(...)).get_result(&mut conn).await.unwrap_or(false); exists
CheckQuery(p) ==
    /\ pc[p] = "c_query"
    /\ \E r \in {IF rows[call[p].key] > 0 THEN "true" ELSE "false", "err"} :
          call' = [call EXCEPT ![p].qres = r,
                               ![p].storeErr = (r = "err"),
                               ![p].lookups = @ + 1,
                               ![p].storeCalls = @ + 1,
                               ![p].ret = IF UnwrapOrFalse(r) THEN "true" ELSE "false"]
    /\ pc' = [pc EXCEPT ![p] = "c_ret"]
    /\ UNCHANGED <<rows, filter, writer, readers, guard, lastAdd, acked, seeded, nCalls, inserted>>

\* ---- add_user ----
AddGetConn(p) ==
    /\ pc[p] = "a_conn"
    /\ \/ /\ pc' = [pc EXCEPT ![p] = "a_insert"]
          /\ call' = [call EXCEPT ![p].storeCalls = @ + 1]
       \/ /\ pc' = [pc EXCEPT ![p] = "a_ret"]
          /\ call' = [call EXCEPT ![p].ret = "err", ![p].storeErr = TRUE,
                                  ![p].storeCalls = @ + 1]
    /\ UNCHANGED <<rows, filter, writer, readers, guard, lastAdd, acked, seeded, nCalls, inserted>>

AddInsert_IgnoreErr(p) ==
    /\ pc[p] = "a_insert"
    /\ \/ /\ rows[call[p].key] < MaxRows
          /\ rows' = [rows EXCEPT ![call[p].key] = @ + 1]
          /\ call' = [call EXCEPT ![p].storeCalls = @ + 1, ![p].storeDone = TRUE]
       \/ /\ rows' = rows
          /\ call' = [call EXCEPT ![p].storeErr = TRUE, ![p].storeCalls = @ + 1]
    /\ pc' = [pc EXCEPT ![p] = "a_lock"]
    /\ UNCHANGED <<filter, writer, readers, guard, lastAdd, acked, seeded, nCalls, inserted>>

\* insert_into(bloom_allowlist).values(..).execute(&mut conn).await?
AddInsert(p) ==
    /\ pc[p] = "a_insert"
    /\ \/ /\ rows[call[p].key] < MaxRows
          /\ rows' = [rows EXCEPT ![call[p].key] = @ + 1]
          /\ pc' = [pc EXCEPT ![p] = "a_lock"]
          /\ call' = [call EXCEPT ![p].storeCalls = @ + 1, ![p].storeDone = TRUE]
       \/ /\ rows' = rows
          /\ pc' = [pc EXCEPT ![p] = "a_ret"]
          /\ call' = [call EXCEPT ![p].ret = "err", ![p].storeErr = TRUE,
                                  ![p].storeCalls = @ + 1]
    /\ UNCHANGED <<filter, writer, readers, guard, lastAdd, acked, seeded, nCalls, inserted>>

\* self.filter.write().await
AddLock(p) ==
    /\ pc[p] = "a_lock"
    /\ writer = NoOne
    /\ readers = {}
    /\ writer' = p
    /\ pc' = [pc EXCEPT ![p] = "a_set"]
    /\ UNCHANGED <<rows, filter, readers, guard, call, lastAdd, acked, seeded, nCalls, inserted>>

AddSet_Skip(p) ==
    /\ pc[p] = "a_set"
    /\ writer' = NoOne
    /\ pc' = [pc EXCEPT ![p] = "a_out"]
    /\ UNCHANGED <<rows, filter, readers, guard, call, lastAdd, acked, seeded, nCalls, inserted>>

\* .set(&new_wallet.to_string()); the write guard is dropped with the statement
AddSet(p) ==
    /\ pc[p] = "a_set"
    /\ filter' = BloomSet(filter, call[p].key)
    /\ writer' = NoOne
    /\ pc' = [pc EXCEPT ![p] = "a_out"]
    /\ inserted' = inserted \cup {call[p].key}
    /\ call' = [call EXCEPT ![p].filterDone = TRUE,
                            ![p].dup = (call[p].key \in inserted)]
    /\ UNCHANGED <<rows, readers, guard, lastAdd, acked, seeded, nCalls>>

\* println!(..); Ok(())
AddOk(p) ==
    /\ pc[p] = "a_out"
    /\ pc' = [pc EXCEPT ![p] = "a_ret"]
    /\ call' = [call EXCEPT ![p].ret = "ok"]
    /\ acked' = acked \cup {call[p].key}
    /\ UNCHANGED <<rows, filter, writer, readers, guard, lastAdd, seeded, nCalls, inserted>>

Next ==
    \E p \in Procs :
       \/ NewBuildPool(p)
       \/ MigrateGetConn(p)
       \/ MigrateCount(p)
       \/ MigrateInsert(p)
       \/ MigrateReturn(p)
       \/ HydrateGetConn(p)
       \/ HydrateLoad(p)
       \/ HydrateLock(p)
       \/ HydrateSet(p)
       \/ HydrateUnlock(p)
       \/ NewReturn(p)
       \/ StartCheck(p)
       \/ StartAdd(p)
       \/ StartHydrate(p)
       \/ Finish(p)
       \/ CheckLock(p)
       \/ CheckTest(p)
       \/ CheckGetConn(p)
       \/ CheckQuery(p)
       \/ AddGetConn(p)
       \/ AddInsert(p)
       \/ AddLock(p)
       \/ AddSet(p)
       \/ AddOk(p)

Spec == Init /\ [][Next]_vars

\* ---- positions ----
\* check_access after its filter test
CheckTested == {"c_conn", "c_query", "c_ret", "panicked"}
CheckPcs == {"c_lock", "c_test"} \cup CheckTested
AddPcs == {"a_conn", "a_insert", "a_lock", "a_set", "a_out", "a_ret"}
HydratePcs == {"h_conn", "h_load", "h_lock", "h_loop", "h_ret"}

\* ---- properties ----

\* C1 as stated: every check_access(k) that starts after an add_user(k) has
\* returned Ok returns true.
C1_ReturnsTrueAfterAdd ==
    \A p \in Procs :
        (pc[p] = "c_ret" /\ call[p].ackAtStart) => call[p].ret = "true"

\* C1 amended: a check_access(k) that starts after an add_user(k) has returned
\* Ok always passes the filter test, and returns true whenever its store
\* lookup completes without an error.
C1_NoFalseNegative ==
    \A p \in Procs :
        call[p].ackAtStart =>
            /\ pc[p] \in CheckTested => call[p].probably
            /\ (pc[p] = "c_ret" /\ ~call[p].storeErr) => call[p].ret = "true"

C1_Witness ==
    \E p \in Procs :
        /\ pc[p] = "c_ret"
        /\ call[p].ackAtStart
        /\ call[p].ret = "true"
        /\ \E q \in Procs \ {p} : pc[q] \in AddPcs \cup HydratePcs

\* C2: check_access returns true only when its existence query was run and
\* reported the wallet present; when the query reports the wallet absent the
\* result is false.
C2_NoFalseGrant ==
    \A p \in Procs :
        /\ (pc[p] = "c_ret" /\ call[p].ret = "true") =>
              /\ call[p].lookups = 1
              /\ call[p].qres = "true"
              /\ rows[call[p].key] > 0
        /\ (pc[p] = "c_ret" /\ call[p].qres = "false") => call[p].ret = "false"
        /\ (pc[p] = "c_ret" /\ rows[call[p].key] = 0) => call[p].ret = "false"

C2_Witness ==
    \E p \in Procs :
        /\ pc[p] = "c_ret"
        /\ call[p].ret = "true"
        /\ call[p].qres = "true"

\* C3: when the filter test of check_access is false, the call returns false
\* and has made no store call at all.
C3_ShortCircuit ==
    \A p \in Procs :
        (pc[p] \in CheckTested /\ ~call[p].probably) =>
            /\ pc[p] = "c_ret"
            /\ call[p].ret = "false"
            /\ call[p].storeCalls = 0
            /\ call[p].lookups = 0

C3_Witness ==
    \E p \in Procs :
        /\ pc[p] = "c_ret"
        /\ ~call[p].probably
        /\ rows[call[p].key] = 0
        /\ call[p].ret = "false"
        /\ call[p].storeCalls = 0

\* C4: a check_access of a wallet that passes the filter test but is absent
\* from the table ends by returning false after exactly one existence query.
C4_FalsePositiveResolved ==
    \A p \in Procs :
        (pc[p] \in {"c_ret", "panicked"} /\ call[p].probably /\ rows[call[p].key] = 0) =>
            /\ pc[p] = "c_ret"
            /\ call[p].lookups = 1
            /\ call[p].ret = "false"

\* C5 as stated: the check_access(k) a task makes right after its own
\* add_user(k) returned Ok returns true.
C5_OwnCheckReturnsTrue ==
    \A p \in Procs :
        (pc[p] = "c_ret" /\ call[p].ownAdd) => call[p].ret = "true"

\* C5 amended: within one add_user(k) the table insert is complete before the
\* filter insert, and the filter insert is complete before Ok is returned; the
\* same task's next check_access(k) passes the filter test and returns true
\* whenever its store lookup completes without an error.
C5_AddOrdering ==
    \A p \in Procs :
        /\ (pc[p] \in AddPcs /\ call[p].filterDone) =>
              /\ call[p].storeDone
              /\ rows[call[p].key] > 0
        /\ (pc[p] = "a_ret" /\ call[p].ret = "ok") =>
              /\ call[p].filterDone
              /\ BloomCheck(filter, call[p].key)
        /\ call[p].ownAdd =>
              /\ pc[p] \in CheckTested => call[p].probably
              /\ (pc[p] = "c_ret" /\ ~call[p].storeErr) => call[p].ret = "true"

C5_Witness ==
    \E p \in Procs :
        /\ pc[p] = "c_ret"
        /\ call[p].ownAdd
        /\ call[p].ret = "true"
        /\ nCalls > 2

\* C6: an add_user whose connection acquisition or insert fails returns the
\* error, never reaches its filter insert, and the failing step leaves the
\* filter as it was.
C6_FailedAddState ==
    \A p \in Procs :
        (pc[p] \in AddPcs /\ call[p].storeErr) =>
            /\ pc[p] = "a_ret"
            /\ call[p].ret = "err"
            /\ ~call[p].filterDone

C6_FailedAddStep ==
    \A p \in Procs :
        (pc[p] \in {"a_conn", "a_insert"} /\ call'[p].storeErr) =>
            /\ filter' = filter
            /\ pc'[p] = "a_ret"

C6_FailedAddKeepsFilter == [](C6_FailedAddState) /\ [][C6_FailedAddStep]_vars

C6_Witness ==
    \E p \in Procs :
        /\ pc[p] = "a_ret"
        /\ call[p].ret = "err"
        /\ call[p].storeCalls = 2
        /\ filter # {}
        /\ ~BloomCheck(filter, call[p].key)

\* C7: a check_access whose store lookup fails (no connection, or a query
\* error) returns false.
C7_FailsClosed ==
    \A p \in Procs :
        (pc[p] \in CheckPcs /\ call[p].storeErr) =>
            /\ pc[p] = "c_ret"
            /\ call[p].ret = "false"

\* C8: no store error during check_access leads to a panic.
C8_NeverPanics == \A p \in Procs : pc[p] # "panicked"

\* C9 as stated: once new's hydrate has returned Ok, every wallet that was in
\* the table passes the filter test and check_access returns true for it.
C9_SeededCheckReturnsTrue ==
    guard = "ready" =>
        /\ \A k \in seeded : BloomCheck(filter, k)
        /\ \A p \in Procs :
              (pc[p] = "c_ret" /\ call[p].key \in seeded) => call[p].ret = "true"

\* C9 amended: once new's hydrate has returned Ok, every wallet that was in
\* the table (the seeded ones included) passes the filter test, and
\* check_access returns true for it whenever its store lookup completes
\* without an error.
C9_HydrationComplete ==
    guard = "ready" =>
        /\ \A k \in seeded : BloomCheck(filter, k)
        /\ \A p \in Procs :
              (pc[p] \in CheckTested /\ call[p].key \in seeded) =>
                  /\ call[p].probably
                  /\ (pc[p] = "c_ret" /\ ~call[p].storeErr) => call[p].ret = "true"

C9_Witness ==
    /\ guard = "ready"
    /\ Cardinality(seeded) >= 2
    /\ \E p \in Procs :
          /\ pc[p] = "c_ret"
          /\ call[p].key \in seeded
          /\ call[p].ret = "true"

\* C10: the filter test of a check_access never runs while a hydrate is
\* between two of its insertions: it sees the filter from before the hydrate
\* wrote, or the filter with every loaded wallet inserted.
C10_AtomicHydrate ==
    \A p \in Procs :
        /\ call[p].sawAtomic
        /\ pc[p] = "c_test" => AtomicView(p)

C10_Witness ==
    \E p, q \in Procs :
        /\ pc[p] = "c_lock"
        /\ pc[q] = "h_loop"
        /\ writer = q
        /\ call[q].todo # {}
        /\ call[q].todo # call[q].results

\* positions at which a store round trip is in flight
StorePcs == {"m_conn", "m_count", "m_insert", "h_conn", "h_load",
             "c_conn", "c_query", "a_conn", "a_insert"}

\* C11: a hydrate whose connection acquisition or load fails returns the
\* error after at most one attempt of each, never reaches its filter writes,
\* and the failing step leaves the filter as it was.
C11_FailedHydrateState ==
    \A p \in Procs :
        /\ pc[p] \in HydratePcs => call[p].storeCalls <= 2
        /\ (pc[p] \in HydratePcs /\ call[p].storeErr) =>
              /\ pc[p] = "h_ret"
              /\ call[p].ret = "err"
              /\ ~call[p].filterDone
              /\ writer # p

C11_FailedHydrateStep ==
    \A p \in Procs :
        (pc[p] \in {"h_conn", "h_load"} /\ call'[p].storeErr) =>
            /\ filter' = filter
            /\ inserted' = inserted
            /\ pc'[p] = "h_ret"

C11_FailedHydrateKeepsFilter == [](C11_FailedHydrateState) /\ [][C11_FailedHydrateStep]_vars

C11_Witness ==
    \E p \in Procs :
        /\ guard = "ready"
        /\ pc[p] = "h_ret"
        /\ call[p].ret = "err"
        /\ call[p].storeCalls = 2
        /\ \E k \in Present(rows) : ~BloomCheck(filter, k)

\* C12: a task never holds the filter's read or write guard while one of its
\* store round trips is in flight, so a check_access waiting for the read
\* guard is never kept waiting by tasks that are all inside store calls.
C12_LockScope ==
    \A p \in Procs :
        /\ pc[p] \in StorePcs => (writer # p /\ p \notin readers)
        /\ writer = p => pc[p] \in {"h_loop", "a_set"}
        /\ p \in readers => pc[p] = "c_test"
        /\ (pc[p] = "c_lock" /\ \A q \in Procs \ {p} : pc[q] \in StorePcs) => writer = NoOne

C12_Witness ==
    \E p, q \in Procs :
        /\ p # q
        /\ pc[p] = "c_lock"
        /\ writer = NoOne
        /\ pc[q] \in {"h_load", "c_query", "a_insert"}
        /\ call[q].storeCalls = 1

\* C13 as stated: when hydrate returns Ok, the wallets inserted into the
\* guard's filter are exactly the wallets its load returned.
C13_ExactlyLoaded ==
    [][\A p \in Procs :
          (pc[p] = "h_loop" /\ pc'[p] = "h_ret") => inserted' = call'[p].results]_vars

\* C13 amended: hydrate writes into the filter it finds: when it returns Ok,
\* the wallets inserted into the guard's filter are the wallets its load
\* returned together with those inserted before it took the write guard, and
\* each of them passes the filter test.
C13_LoadedAddedToExisting ==
    [][\A p \in Procs :
          (pc[p] = "h_loop" /\ pc'[p] = "h_ret") =>
              /\ inserted' = call'[p].before \cup call'[p].results
              /\ \A k \in inserted' : BloomCheck(filter', k)]_vars

C13_Witness ==
    \E p \in Procs :
        /\ pc[p] = "h_ret"
        /\ call[p].ret = "ok"
        /\ ~(call[p].before \subseteq call[p].results)
        /\ call[p].before \cup call[p].results \subseteq inserted

\* C14 as stated: once new has returned the guard, every wallet in the table
\* passes the filter test, in every state.
C14_AlwaysSuperset ==
    guard = "ready" => \A k \in Present(rows) : BloomCheck(filter, k)

\* C14 amended: once new has returned the guard, every wallet in the table
\* passes the filter test, except a wallet whose add_user has done its table
\* insert and not yet its filter insert.
C14_SupersetButMidAdd ==
    guard = "ready" =>
        \A k \in Present(rows) :
            \/ BloomCheck(filter, k)
            \/ \E p \in Procs : pc[p] \in {"a_lock", "a_set"} /\ call[p].key = k

C14_Witness ==
    /\ guard = "ready"
    /\ \E p \in Procs :
          /\ pc[p] = "a_lock"
          /\ rows[call[p].key] > 0
          /\ ~BloomCheck(filter, call[p].key)

\* C15: every wallet handed to the filter's insert, by hydrate or add_user, is
\* in the table; the table may hold wallets not yet inserted, never the
\* reverse.
C15_NoOrphans == inserted \subseteq Present(rows)

C15_Witness ==
    /\ guard = "ready"
    /\ acked # {}
    /\ acked \subseteq inserted
    /\ Present(rows) \ inserted # {}

\* C16: when a hydrate and an add_user(k) that ran concurrently have both
\* returned Ok, k passes the filter test; no wallet whose add_user returned Ok
\* ever fails it.
C16_RaceLosesNothing ==
    /\ \A p, q \in Procs :
          (/\ pc[p] = "h_ret" /\ call[p].ret = "ok"
           /\ pc[q] = "a_ret" /\ call[q].ret = "ok") => BloomCheck(filter, call[q].key)
    /\ \A k \in acked : BloomCheck(filter, k)

C16_Witness ==
    \E p, q \in Procs :
        /\ pc[p] = "h_ret" /\ call[p].ret = "ok"
        /\ pc[q] = "a_ret" /\ call[q].ret = "ok"
        /\ call[q].key \notin call[p].results
        /\ call[q].key \in call[p].before
        /\ BloomCheck(filter, call[q].key)

\* C17: no step clears a bit of the filter: a wallet that passes the filter
\* test passes it in every later state.
C17_AppendOnly ==
    [][/\ filter \subseteq filter'
       /\ \A k \in Keys : BloomCheck(filter, k) => BloomCheck(filter', k)]_vars

C17_Witness ==
    \E p \in Procs :
        /\ guard = "ready"
        /\ pc[p] = "h_loop"
        /\ call[p].filterDone
        /\ call[p].before # {}
        /\ \A k \in call[p].before : BloomCheck(filter, k)

\* C18: no check_access or add_user runs before new has returned the guard,
\* and new returns it only after seeding and hydrate have both succeeded, with
\* every wallet of the table inserted into the filter; when either fails, new
\* ends with the error and no call is ever made.
C18_NoUseBeforeHydrate ==
    /\ guard # "ready" =>
          /\ nCalls = 0
          /\ \A p \in Procs : pc[p] \notin CheckPcs \cup AddPcs
          /\ \A p \in Procs \ {Main} : pc[p] = "idle"
    /\ guard = "failed" => pc[Main] = "exited"
    /\ guard = "ready" =>
          /\ Total(rows) >= SeedCount
          /\ seeded # {}
          /\ seeded \subseteq inserted
          /\ \A k \in seeded : BloomCheck(filter, k)

C18_Witness ==
    /\ guard = "ready"
    /\ nCalls = 1
    /\ inserted = seeded
    /\ \E p \in Procs : pc[p] = "c_test" /\ call[p].key \in seeded

\* C19: no step of a check_access call, from its start to its return, changes
\* the filter or the table.
C19_CheckReadOnly ==
    [][\A p \in Procs :
          ((pc[p] \in CheckPcs \/ pc'[p] \in CheckPcs) /\ pc'[p] # pc[p]) =>
              /\ filter' = filter
              /\ rows' = rows
              /\ inserted' = inserted]_vars

C19_Witness ==
    \E p \in Procs :
        /\ pc[p] = "c_ret"
        /\ call[p].storeCalls = 2
        /\ call[p].qres = "false"
        /\ rows[call[p].key] = 0
        /\ call[p].key \notin inserted

\* the filter test of every wallet is the same after the step as before it
C20_SameTests == \A j \in Keys : BloomCheck(filter', j) = BloomCheck(filter, j)

====
